---- MODULE Spec2Model ----
(***************************************************************************)
(* gluestick: HTML -> JSON scraping driven by a declarative request.       *)
(*                                                                         *)
(* The repository holds three variants of the program:                     *)
(*   "http"   src/gluestick.go          the HTTP handler                    *)
(*   "server" src/server/gluestick.go   the HTTP handler README builds      *)
(*   "cli"    src/README.md:148-350     the command line program            *)
(* A Go string is modelled as a sequence of one-character strings, a Go    *)
(* map as a function over a finite set of keys, an interface{} value as a  *)
(* tagged record.                                                          *)
(***************************************************************************)
EXTENDS Integers, Sequences, FiniteSets, TLC

VARIABLES
    \* ---- ValueAccumulator driven alone (SpecAccum)
    outMap,      \* the container accumValue writes into
    calls,       \* per key, the values handed to accumValue so far, in call order
    \* ---- SelectorParser driven alone (SpecParse)
    parseVariant, \* which getSelectorAndAttr is called
    input,        \* the expression handed to it
    parseRet,     \* what it returned (NotCalled before the call)
    \* ---- FieldExtractor driven alone (SpecFields)
    pfVariant,    \* which parseFields is called
    pfFields,     \* the field definitions handed to it
    pfNode,       \* the matched element handed to it
    pfRet,        \* what it returned (NotCalled before the call)
    \* ---- one scrape request, end to end (Spec)
    variant,      \* which program serves it: "http", "server" or "cli"
    perIteration, \* whether the build gives each loop iteration its own variables
    method,       \* the HTTP method of the request ("-" for the cli)
    args,         \* the command line of the cli: -f, -in, and how stdin reads
    sources,      \* the JSON the file, the -in string and stdin hold ("cli")
    body,         \* the JSON handed in (inputJson once read, for the cli)
    readFrom,     \* the source the cli read its input from
    doc,          \* the elements of the page behind the url, in document order
    pc,           \* where the caller is
    req,          \* scrapeReq once decoded
    results,      \* the results map
    pendingItems, \* the items the range loop has not visited yet
    loopVar,      \* the loop variables itemName / item (their current key)
    callbacks,    \* the OnHTML callbacks, in registration order
    handlers,     \* the terminal callbacks registered with the collector
    visits,       \* how many times c.Visit has been called
    wg,           \* the WaitGroup counter ("http", "server")
    ch,           \* the scrapeError channel ("cli")
    events,       \* the callbacks colly has still to invoke inside Visit
    outcome,      \* what the fetch came to
    fired,        \* the terminal callbacks invoked so far, in order
    scrapeErr,    \* what scrape returned as its error ("cli")
    response,     \* the HTTP response written / the exit of the process
    \* ---- two requests in flight in one server (SpecTwo)
    hs,           \* per request, the state of the handler invocation serving it
    frames        \* per invocation, its results map and its WaitGroup counter

accumVars == <<outMap, calls>>
parseVars == <<parseVariant, input, parseRet>>
fieldVars == <<pfVariant, pfFields, pfNode, pfRet>>
mainVars == <<variant, perIteration, method, args, sources, body, readFrom, doc, pc, req,
              results, pendingItems, loopVar, callbacks, handlers, visits, wg, ch, events,
              outcome, fired, scrapeErr, response>>
twoVars == <<hs, frames>>
vars == <<accumVars, parseVars, fieldVars, mainVars, twoVars>>

-----------------------------------------------------------------------------
(* Bounds *)
MaxAccum == 3      \* accumValue calls in one run of SpecAccum
MaxExprLen == 3    \* length of a generated selector expression
MaxKids == 2       \* descendants of a generated element
MaxNodes == 2      \* top-level elements of a generated page

(* Program constants *)
ChanCap == 1       \* make(chan error, 1)

-----------------------------------------------------------------------------
(* Strings *)

RECURSIVE SeqsUpTo(_, _)
SeqsUpTo(S, n) ==
    IF n = 0 THEN {<<>>}
    ELSE LET shorter == SeqsUpTo(S, n - 1)
         IN  shorter \cup {Append(s, c) : s \in shorter, c \in S}

\* A plausible slip: strings.Index, the first occurrence.
FirstIndex(s, sep) ==
    LET hits == {i \in 1..Len(s) : s[i] = sep}
    IN  IF hits = {} THEN 0 ELSE CHOOSE i \in hits : \A j \in hits : i <= j

\* strings.LastIndex(s, sep) for a one-character sep; 0 stands for Go's -1
\* (the model's indices start at 1).
LastIndex(s, sep) ==
    LET hits == {i \in 1..Len(s) : s[i] = sep}
    IN  IF hits = {} THEN 0 ELSE CHOOSE i \in hits : \A j \in hits : j <= i

\* the white space the generated strings can hold
IsSpace(c) == c = " "

\* strings.TrimSpace
TrimSpace(s) ==
    LET solid == {i \in 1..Len(s) : ~IsSpace(s[i])}
    IN  IF solid = {} THEN <<>>
        ELSE LET lo == CHOOSE i \in solid : \A j \in solid : i <= j
                 hi == CHOOSE i \in solid : \A j \in solid : j <= i
             IN  SubSeq(s, lo, hi)

-----------------------------------------------------------------------------
(* Values: what a map[string]interface{} of the program holds *)

Str(s) == [kind |-> "str", s |-> s]               \* string
List(items) == [kind |-> "list", items |-> items] \* []interface{}
Obj(m) == [kind |-> "obj", m |-> m]               \* map[string]interface{}

EmptyMap == [k \in {} |-> Str(<<>>)]              \* make(map[string]interface{})

\* outMap[key] = value
MapSet(m, key, value) ==
    [k \in DOMAIN m \cup {key} |-> IF k = key THEN value ELSE m[k]]

\* A plausible slip: the second write keeps only the new value in the slice.
accumValueDropsPrev(m, key, value) ==
    IF key \in DOMAIN m
    THEN IF m[key].kind = "list"
         THEN MapSet(m, key, List(Append(m[key].items, value)))
         ELSE MapSet(m, key, List(<<value>>))
    ELSE MapSet(m, key, value)

\* A plausible slip: a key not seen before is written into a map made anew.
accumValueResets(m, key, value) ==
    IF key \in DOMAIN m
    THEN IF m[key].kind = "list"
         THEN MapSet(m, key, List(Append(m[key].items, value)))
         ELSE MapSet(m, key, List(<<m[key], value>>))
    ELSE MapSet(EmptyMap, key, value)

accumValue(m, key, value) ==
    IF key \in DOMAIN m
    THEN IF m[key].kind = "list"
         THEN \* already a slice, append
              MapSet(m, key, List(Append(m[key].items, value)))
         ELSE \* prev was single value, convert to slice and add new val
              MapSet(m, key, List(<<m[key], value>>))
    ELSE MapSet(m, key, value)

-----------------------------------------------------------------------------
(* getSelectorAndAttr *)

NotCalled == [called |-> FALSE]
Ret(sel, attr) == [called |-> TRUE, sel |-> sel, attr |-> attr]

\* src/gluestick.go: no trimming
getSelectorAndAttrHttp(in) ==
    LET idx == LastIndex(in, "|")
    IN  IF idx = 0
        THEN <<in, <<>>>>
        ELSE <<SubSeq(in, 1, idx - 1), SubSeq(in, idx + 1, Len(in))>>

\* src/README.md: both parts trimmed
getSelectorAndAttrCli(in) ==
    LET idx == LastIndex(in, "|")
    IN  IF idx = 0
        THEN <<TrimSpace(in), <<>>>>
        ELSE <<TrimSpace(SubSeq(in, 1, idx - 1)),
               TrimSpace(SubSeq(in, idx + 1, Len(in)))>>

getSelectorAndAttr(v, in) ==
    IF v = "cli" THEN getSelectorAndAttrCli(in) ELSE getSelectorAndAttrHttp(in)

-----------------------------------------------------------------------------
(* The document, as colly hands it to a callback: an element has a tag, its
   text, its attributes and, in document order, the descendants a selector
   can match. *)

Elem(tag, text, attrs, kids) == [tag |-> tag, text |-> text, attrs |-> attrs, kids |-> kids]
NoAttrs == [k \in {} |-> <<>>]
OneAttr(k, val) == [x \in {k} |-> val]

\* Whether `sel` selects element e. cascadia skips white space around a
\* selector; a selector is a tag name here, and one that is empty, or holds a
\* space or a '|' inside, selects no element of the generated documents.
Matches(e, sel) == e.tag = TrimSpace(sel)

\* e.DOM.Find(sel): the matching descendants, in document order
Find(e, sel) == SelectSeq(e.kids, LAMBDA k : Matches(k, sel))

RECURSIVE ConcatText(_)
ConcatText(es) == IF es = <<>> THEN <<>> ELSE Head(es).text \o ConcatText(Tail(es))

\* e.Attr(k): the attribute's value, "" when e has no such attribute
Attr(e, k) == IF k \in DOMAIN e.attrs THEN e.attrs[k] ELSE <<>>

\* e.ChildText(sel): the trimmed, concatenated text of the matching descendants
ChildText(e, sel) == TrimSpace(ConcatText(Find(e, sel)))

\* e.ChildAttrs(sel, attr): the attribute of each matching descendant that has it
RECURSIVE AttrsOf(_, _)
AttrsOf(es, attr) ==
    IF es = <<>> THEN <<>>
    ELSE (IF attr \in DOMAIN Head(es).attrs THEN <<Head(es).attrs[attr]>> ELSE <<>>)
         \o AttrsOf(Tail(es), attr)
ChildAttrs(e, sel, attr) == AttrsOf(Find(e, sel), attr)

\* e.ForEach(sel, f): the text of each matching descendant, as f reads it
RECURSIVE TextsOf(_)
TextsOf(es) == IF es = <<>> THEN <<>> ELSE <<Head(es).text>> \o TextsOf(Tail(es))
ForEachText(e, sel) == TextsOf(Find(e, sel))

-----------------------------------------------------------------------------
(* Field definitions, as json decodes them into interface{} *)

Leaf(expr) == [kind |-> "leaf", expr |-> expr]        \* a JSON string
Nested(fields) == [kind |-> "nested", fields |-> fields] \* a JSON object
Other == [kind |-> "other"]                           \* number, bool, null, array

\* a range over a Go map visits its keys in some order
Orders(S) == {o \in [1..Cardinality(S) -> S] : \A k \in S : \E i \in DOMAIN o : o[i] = k}
SomeOrder(S) == CHOOSE o \in Orders(S) : TRUE

RECURSIVE StrsOf(_)
StrsOf(ss) == IF ss = <<>> THEN <<>> ELSE <<Str(Head(ss))>> \o StrsOf(Tail(ss))

RECURSIVE accumAll(_, _, _)
accumAll(parsed, key, values) ==
    IF values = <<>> THEN parsed
    ELSE accumAll(accumValue(parsed, key, Head(values)), key, Tail(values))

\* A plausible slip: the element's own attribute is skipped when absent, as
\* ChildAttrs skips it for descendants.
leafValuesSkipsAbsent(v, fieldSelector, e) ==
    LET p == getSelectorAndAttr(v, fieldSelector)
        sel == p[1]
        attr == p[2]
    IN  IF Len(sel) = 0
        THEN IF Len(attr) = 0
             THEN <<Str(e.text)>>
             ELSE IF attr \in DOMAIN e.attrs THEN <<Str(e.attrs[attr])>> ELSE <<>>
        ELSE IF Len(attr) = 0
             THEN IF v = "cli"
                  THEN StrsOf(ForEachText(e, sel))
                  ELSE <<Str(ChildText(e, sel))>>
             ELSE StrsOf(ChildAttrs(e, sel, attr))

\* The values one string field hands to accumValue, in call order.
leafValues(v, fieldSelector, e) ==
    LET p == getSelectorAndAttr(v, fieldSelector)
        sel == p[1]
        attr == p[2]
    IN  IF Len(sel) = 0
        THEN IF Len(attr) = 0
             THEN <<Str(e.text)>>                       \* Use text
             ELSE <<Str(Attr(e, attr))>>                \* Use attr
        ELSE IF Len(attr) = 0
             THEN IF v = "cli"
                  THEN StrsOf(ForEachText(e, sel))      \* e.ForEach
                  ELSE <<Str(ChildText(e, sel))>>       \* e.ChildText
             ELSE StrsOf(ChildAttrs(e, sel, attr))

\* parseFields, its range over `fields` taken in `order`
\* A plausible slip: a sub-object that came out empty is not stored.
RECURSIVE parseFieldsInDropsEmpty(_, _, _, _)
parseFieldsInDropsEmpty(v, fields, e, order) ==
    IF order = <<>> THEN EmptyMap
    ELSE LET parsed == parseFieldsInDropsEmpty(v, fields, e, SubSeq(order, 1, Len(order) - 1))
             fieldName == order[Len(order)]
             field == fields[fieldName]
             val == parseFieldsInDropsEmpty(v, field.fields, e, SomeOrder(DOMAIN field.fields))
         IN  CASE field.kind = "leaf" -> accumAll(parsed, fieldName, leafValues(v, field.expr, e))
               [] field.kind = "nested" ->
                    IF DOMAIN val = {} THEN parsed ELSE accumValue(parsed, fieldName, Obj(val))
               [] OTHER -> parsed

\* A plausible slip: the malformed definition's field is stored, empty.
RECURSIVE parseFieldsInStoresNull(_, _, _, _)
parseFieldsInStoresNull(v, fields, e, order) ==
    IF order = <<>> THEN EmptyMap
    ELSE LET parsed == parseFieldsInStoresNull(v, fields, e, SubSeq(order, 1, Len(order) - 1))
             fieldName == order[Len(order)]
             field == fields[fieldName]
         IN  CASE field.kind = "leaf" -> accumAll(parsed, fieldName, leafValues(v, field.expr, e))
               [] field.kind = "nested" -> accumValue(parsed, fieldName,
                        Obj(parseFieldsInStoresNull(v, field.fields, e, SomeOrder(DOMAIN field.fields))))
               [] OTHER -> accumValue(parsed, fieldName, Str(<<>>))

RECURSIVE parseFieldsIn(_, _, _, _)
parseFieldsIn(v, fields, e, order) ==
    IF order = <<>> THEN EmptyMap
    ELSE LET parsed == parseFieldsIn(v, fields, e, SubSeq(order, 1, Len(order) - 1))
             fieldName == order[Len(order)]
             field == fields[fieldName]
         IN  CASE field.kind = "leaf" ->
                    accumAll(parsed, fieldName, leafValues(v, field.expr, e))
               [] field.kind = "nested" ->
                    accumValue(parsed, fieldName,
                        Obj(parseFieldsIn(v, field.fields, e, SomeOrder(DOMAIN field.fields))))
               [] OTHER -> parsed   \* logged, nothing stored

\* parseFields under every order the range over a map can take, at every
\* level of nesting: the objects it can return
RECURSIVE parseFieldsFrom(_, _, _, _)
RECURSIVE parseFieldsAll(_, _, _)
parseFieldsFrom(v, fields, e, order) ==
    IF order = <<>> THEN {EmptyMap}
    ELSE LET before == parseFieldsFrom(v, fields, e, SubSeq(order, 1, Len(order) - 1))
             fieldName == order[Len(order)]
             field == fields[fieldName]
         IN  CASE field.kind = "leaf" ->
                    {accumAll(parsed, fieldName, leafValues(v, field.expr, e)) :
                        parsed \in before}
               [] field.kind = "nested" ->
                    {accumValue(parsed, fieldName, Obj(val)) :
                        parsed \in before, val \in parseFieldsAll(v, field.fields, e)}
               [] OTHER -> before
parseFieldsAll(v, fields, e) ==
    UNION {parseFieldsFrom(v, fields, e, order) : order \in Orders(DOMAIN fields)}

-----------------------------------------------------------------------------
(* SpecAccum: accumValue called up to MaxAccum times on one container *)

AccumKeys == {<<"a">>, <<"b">>}
\* what the program hands to accumValue: strings and objects
AccumVals ==
    {Str(<<>>), Str(<<"x">>), Obj(EmptyMap), Obj(MapSet(EmptyMap, <<"t">>, Str(<<"x">>)))}

NoCalls == [k \in AccumKeys |-> <<>>]
TotalCalls == Len(calls[<<"a">>]) + Len(calls[<<"b">>])

\* the request's state before anything has run
Malformed == [ok |-> FALSE]                       \* a body json cannot decode
Request(url, items) == [ok |-> TRUE, url |-> url, items |-> items]
NoItems == [k \in {} |-> [selector |-> <<>>, fields |-> EmptyMap]]
NoReq == Request(<<>>, NoItems)                   \* var scrapeReq ScrapeRequest
NoItem == <<>>
NewChan == [buf |-> <<>>, closed |-> FALSE]       \* make(chan error, 1)
NoResponse == [sent |-> FALSE, code |-> 0, body |-> EmptyMap]
Reply(code, b) == [sent |-> TRUE, code |-> code, body |-> b]

\* the command line and the input sources of a program that has neither
NoArgs == [f |-> "none", in |-> FALSE, stdin |-> "ok"]
NoSources == [file |-> Malformed, literal |-> Malformed, stdin |-> Malformed]

Fresh ==
    /\ req = NoReq
    /\ results = EmptyMap
    /\ pendingItems = {}
    /\ loopVar = NoItem
    /\ callbacks = <<>>
    /\ handlers = {}
    /\ visits = 0
    /\ readFrom = "none"
    /\ wg = 0
    /\ ch = NewChan
    /\ events = <<>>
    /\ outcome = "none"
    /\ fired = <<>>
    /\ scrapeErr = "unset"
    /\ response = NoResponse

TwoIdle == hs = <<>> /\ frames = <<>>

MainIdle ==
    /\ TwoIdle
    /\ variant = "http"
    /\ perIteration = FALSE
    /\ method = "POST"
    /\ args = NoArgs
    /\ sources = NoSources
    /\ body = Malformed
    /\ doc = <<>>
    /\ pc = "idle"
    /\ Fresh

ParseIdle == parseVariant = "http" /\ input = <<>> /\ parseRet = NotCalled
AccumIdle == outMap = EmptyMap /\ calls = NoCalls
FieldsIdle ==
    /\ pfVariant = "http"
    /\ pfFields = EmptyMap
    /\ pfNode = Elem(<<"d">>, <<>>, NoAttrs, <<>>)
    /\ pfRet = NotCalled

InitAccum == AccumIdle /\ ParseIdle /\ FieldsIdle /\ MainIdle

AccumStep ==
    /\ TotalCalls < MaxAccum
    /\ \E key \in AccumKeys, value \in AccumVals :
          /\ outMap' = accumValue(outMap, key, value)
          /\ calls' = [calls EXCEPT ![key] = Append(@, value)]
    /\ UNCHANGED <<parseVars, fieldVars, mainVars, twoVars>>

NextAccum == AccumStep

SpecAccum == InitAccum /\ [][NextAccum]_vars

-----------------------------------------------------------------------------
(* SpecParse: getSelectorAndAttr called once on a generated expression *)

ExprAlphabet == {"h", " ", "|"}
Example1 == <<"a", " ", "i", "m", "g", "|", "s", "r", "c">>   \* "a img|src"
Example2 == <<"h", "3">>                                      \* "h3"
Example3 == <<"|", "h", "r", "e", "f">>                       \* "|href"
Example4 == <<" ", "|", " ", "h", "r", "e", "f", " ">>        \* " | href "
Exprs == SeqsUpTo(ExprAlphabet, MaxExprLen) \cup {Example1, Example2, Example3, Example4}

InitParse ==
    /\ AccumIdle
    /\ FieldsIdle
    /\ MainIdle
    /\ parseVariant \in {"http", "cli"}
    /\ input \in Exprs
    /\ parseRet = NotCalled

ParseCall ==
    /\ parseRet = NotCalled
    /\ LET r == getSelectorAndAttr(parseVariant, input)
       IN  parseRet' = Ret(r[1], r[2])
    /\ UNCHANGED <<parseVariant, input, accumVars, fieldVars, mainVars, twoVars>>

NextParse == ParseCall

SpecParse == InitParse /\ [][NextParse]_vars

-----------------------------------------------------------------------------
(* SpecFields: parseFields called once on generated field definitions and a
   generated element *)

Kids ==
    { Elem(<<"h">>, <<"x">>, NoAttrs, <<>>),
      Elem(<<"h">>, <<"y">>, OneAttr(<<"r">>, <<"u">>), <<>>),
      Elem(<<"h">>, <<>>, OneAttr(<<"r">>, <<>>), <<>>),
      Elem(<<"p">>, <<"z">>, NoAttrs, <<>>) }

Elements ==
    { Elem(<<"d">>, text, attrs, kids) :
        text \in {<<"w">>},
        attrs \in {NoAttrs, OneAttr(<<"r">>, <<"u">>), OneAttr(<<"r">>, <<>>)},
        kids \in SeqsUpTo(Kids, MaxKids) }

OneField(k, f) == [x \in {k} |-> f]
TwoFields(k1, f1, k2, f2) == [x \in {k1, k2} |-> IF x = k1 THEN f1 ELSE f2]

FieldMaps ==
    { OneField(<<"t">>, Leaf(<<>>)),                        \* ""
      OneField(<<"t">>, Leaf(<<"h">>)),                     \* "h"
      OneField(<<"t">>, Leaf(<<"h", "|", "r">>)),           \* "h|r"
      OneField(<<"t">>, Leaf(<<"|", "r">>)),                \* "|r"
      OneField(<<"t">>, Leaf(<<" ", "|", " ", "r", " ">>)), \* " | r "
      OneField(<<"t">>, Leaf(<<"q", "|", "r">>)),           \* "q|r": no such descendant
      TwoFields(<<"t">>, Leaf(<<"h">>), <<"u">>, Leaf(<<"|", "r">>)),
      TwoFields(<<"t">>, Leaf(<<"p">>), <<"n">>,
                Nested(OneField(<<"t">>, Leaf(<<"h", "|", "r">>)))),
      TwoFields(<<"t">>, Other, <<"u">>, Leaf(<<"|", "s">>)),
      OneField(<<"n">>, Nested(TwoFields(<<"t">>, Leaf(<<"h">>), <<"n">>,
                Nested(OneField(<<"u">>, Leaf(<<"q", "|", "r">>)))))) }

InitFields ==
    /\ AccumIdle
    /\ ParseIdle
    /\ MainIdle
    /\ pfVariant \in {"http", "cli"}
    /\ pfFields \in FieldMaps
    /\ pfNode \in Elements
    /\ pfRet = NotCalled

ParseFieldsCall ==
    /\ pfRet = NotCalled
    /\ \E order \in Orders(DOMAIN pfFields) :
          pfRet' = [called |-> TRUE,
                    parsed |-> parseFieldsIn(pfVariant, pfFields, pfNode, order)]
    /\ UNCHANGED <<pfVariant, pfFields, pfNode, accumVars, parseVars, mainVars, twoVars>>

NextFields == ParseFieldsCall

SpecFields == InitFields /\ [][NextFields]_vars

-----------------------------------------------------------------------------
(* Spec: one scrape request, from the request coming in to the response *)

Item(selector, fields) == [selector |-> selector, fields |-> fields]
OneItem(k, i) == [x \in {k} |-> i]
TwoItems(k1, i1, k2, i2) == [x \in {k1, k2} |-> IF x = k1 THEN i1 ELSE i2]

ItemA == Item(<<"a">>, OneField(<<"t">>, Leaf(<<"h">>)))        \* "a" elements, their "h" text
ItemD == Item(<<"d">>, OneField(<<"u">>, Leaf(<<"|", "r">>)))   \* "d" elements, their own r
ItemN == Item(<<"a">>, TwoFields(<<"t">>, Leaf(<<"h", "|", "r">>),
                                 <<"n">>, Nested(OneField(<<"t">>, Leaf(<<>>)))))
ItemO == Item(<<"a">>, TwoFields(<<"t">>, Other, <<"u">>, Leaf(<<"|", "r">>)))

GoodUrl == <<"u">>
Bodies ==
    { Malformed,
      Request(GoodUrl, OneItem(<<"x">>, ItemA)),
      Request(GoodUrl, TwoItems(<<"x">>, ItemA, <<"y">>, ItemD)),
      Request(GoodUrl, OneItem(<<"x">>, ItemN)),
      Request(GoodUrl, OneItem(<<"x">>, ItemO)),
      Request(<<>>, OneItem(<<"x">>, ItemA)),                   \* "url": ""
      Request(<<":">>, OneItem(<<"x">>, ItemA)),                \* "url": ":"
      Request(GoodUrl, NoItems),
      Request(GoodUrl, OneItem(<<"x">>, Item(<<>>, ItemA.fields))),
      Request(GoodUrl, OneItem(<<"x">>, Item(<<"a">>, EmptyMap))),
      Request(GoodUrl, OneItem(<<"x">>, Item(<<"a">>, OneField(<<"t">>, Leaf(<<>>))))) }

TopElements ==
    { Elem(<<"a">>, <<"w">>, NoAttrs, <<Elem(<<"h">>, <<"x">>, NoAttrs, <<>>)>>),
      Elem(<<"a">>, <<"v">>, OneAttr(<<"r">>, <<"u">>),
           <<Elem(<<"h">>, <<"x">>, NoAttrs, <<>>),
             Elem(<<"h">>, <<"y">>, OneAttr(<<"r">>, <<"u">>), <<>>)>>),
      Elem(<<"d">>, <<"w">>, OneAttr(<<"r">>, <<"u">>), <<>>) }
Docs == SeqsUpTo(TopElements, MaxNodes)

\* The cli's command lines: -in with a non-empty string or not, -f naming a
\* readable file, an unreadable one or not given, and stdin readable or not
\* (stdin is looked at with neither flag only).
CommandLines ==
    {[f |-> f, in |-> i, stdin |-> "ok"] : f \in {"none", "ok", "bad"}, i \in BOOLEAN}
        \cup {[f |-> "none", in |-> FALSE, stdin |-> "bad"]}
SourceNames == {"file", "literal", "stdin"}
\* One source holds any of Bodies, the two others hold what tells them apart.
Decoys == [file |-> Malformed, literal |-> Request(GoodUrl, NoItems),
           stdin |-> Request(<<":">>, NoItems)]
SourceSets ==
    {[n \in SourceNames |-> IF n = w THEN b ELSE Decoys[n]] : w \in SourceNames, b \in Bodies}

\* json decoding into ScrapeRequest: "server" declares Fields map[string]string
decodeFails(v, b) ==
    \/ ~b.ok
    \/ /\ v = "server"
       /\ \E k \in DOMAIN b.items : \E f \in DOMAIN b.items[k].fields :
              b.items[k].fields[f].kind # "leaf"

\* url.Parse fails on the generated urls that start with a colon
\* ("missing protocol scheme"); the empty string parses.
urlParseFails(u) == u # <<>> /\ u[1] = ":"

\* validate: "nil" or an error
validate(v, r) ==
    IF urlParseFails(r.url) THEN "err"
    ELSE IF DOMAIN r.items = {} THEN "err"
    ELSE IF \E k \in DOMAIN r.items :
               \/ Len(r.items[k].selector) = 0
               \/ DOMAIN r.items[k].fields = {}
               \/ /\ v = "server"
                  /\ \E f \in DOMAIN r.items[k].fields :
                         Len(f) = 0 \/ Len(r.items[k].fields[f].expr) = 0
         THEN "err"
         ELSE "nil"

\* "server": addValue, every value kept in a slice
addValue(m, key, value) ==
    IF key \in DOMAIN m
    THEN MapSet(m, key, List(Append(m[key].items, value)))
    ELSE MapSet(m, key, List(<<value>>))

TodoValue(fName) ==
    Str(<<"t", "o", "d", "o", "-", "v", "a", "l", "u", "e", "-", "f", "o", "r">> \o fName)

\* "server": the outItem its callback builds, the range taken in `order`
RECURSIVE outItemIn(_)
outItemIn(order) ==
    IF order = <<>> THEN EmptyMap
    ELSE addValue(outItemIn(SubSeq(order, 1, Len(order) - 1)),
                  order[Len(order)], TodoValue(order[Len(order)]))

\* colly's handleOnHTML: callback by callback in registration order, each on
\* the elements its selector matches, in document order
Event(kind, cb, node) == [kind |-> kind, cb |-> cb, node |-> node]
NodeEvents(i, sel, d) ==
    LET at == SelectSeq([j \in 1..Len(d) |-> j], LAMBDA j : Matches(d[j], sel))
    IN  [k \in 1..Len(at) |-> Event("html", i, at[k])]
RECURSIVE HtmlEvents(_, _, _)
HtmlEvents(cbs, d, i) ==
    IF i > Len(cbs) THEN <<>>
    ELSE NodeEvents(i, cbs[i].selector, d) \o HtmlEvents(cbs, d, i + 1)

\* What one fetch makes colly invoke. "ok": the walk, then OnScraped.
\* "fetchFail": the request failed, OnError alone. "parseFail": the response
\* came but its HTML could not be read: OnError, and OnScraped after it.
Outcomes == {"ok", "fetchFail", "parseFail"}
EventsOf(o, cbs, d) ==
    CASE o = "ok" -> HtmlEvents(cbs, d, 1) \o <<Event("scraped", 0, 0)>>
      [] o = "fetchFail" -> <<Event("error", 0, 0)>>
      [] o = "parseFail" -> <<Event("error", 0, 0), Event("scraped", 0, 0)>>

\* colly's requestCheck: Visit("") returns ErrMissingURL at once, no request
\* is made and no callback is invoked
refuses(u) == u = <<>>

Init ==
    /\ AccumIdle
    /\ ParseIdle
    /\ FieldsIdle
    /\ TwoIdle
    /\ variant \in {"http", "server", "cli"}
    /\ perIteration \in (IF variant = "cli" THEN {FALSE} ELSE BOOLEAN)
    /\ method \in (IF variant = "cli" THEN {"-"} ELSE {"POST", "GET"})
    /\ IF variant = "cli"
       THEN /\ args \in CommandLines
            /\ sources \in SourceSets
            /\ body = Malformed          \* var inputJson []byte
       ELSE /\ args = NoArgs
            /\ sources = NoSources
            /\ body \in Bodies
    /\ doc \in Docs
    /\ pc = "start"
    /\ Fresh

idleVars == <<accumVars, parseVars, fieldVars, twoVars>>
inVars == <<variant, perIteration, method, args, sources, doc>>
readVars == <<body, readFrom>>
syncVars == <<visits, wg, ch, events, outcome, fired, scrapeErr>>
regVars == <<pendingItems, loopVar, callbacks, handlers>>

\* http.Error(w, ..., StatusBadRequest); return  /  os.Exit(1)
Rejected == Reply(IF variant = "cli" THEN 1 ELSE 400, EmptyMap)

\* "http", "server": if r.Method != http.MethodPost
MethodCheck ==
    /\ pc = "start"
    /\ variant # "cli"
    /\ IF method # "POST"
       THEN pc' = "done" /\ response' = Reply(405, EmptyMap)
       ELSE pc' = "decode" /\ UNCHANGED response
    /\ UNCHANGED <<idleVars, inVars, readVars, req, results, regVars, syncVars>>

\* A plausible slip: the file named by -f is looked at before the -in string.
ReadInputFileFirst ==
    /\ pc = "start"
    /\ variant = "cli"
    /\ readFrom' = (IF args.f # "none" THEN "file" ELSE IF args.in THEN "literal" ELSE "stdin")
    /\ IF \/ readFrom' = "file" /\ args.f = "bad"
          \/ readFrom' = "stdin" /\ args.stdin = "bad"
       THEN pc' = "done" /\ response' = Reply(1, EmptyMap) /\ UNCHANGED body
       ELSE pc' = "decode" /\ body' = sources[readFrom'] /\ UNCHANGED response
    /\ UNCHANGED <<idleVars, inVars, req, results, regVars, syncVars>>

\* "cli": inputJson is the -in string when it is not empty, else the file
\* named by -f when one is named, else standard input; a read that fails
\* ends the process with status 1
ReadInput ==
    /\ pc = "start"
    /\ variant = "cli"
    /\ readFrom' = (IF args.in THEN "literal" ELSE IF args.f # "none" THEN "file" ELSE "stdin")
    /\ IF \/ readFrom' = "file" /\ args.f = "bad"
          \/ readFrom' = "stdin" /\ args.stdin = "bad"
       THEN pc' = "done" /\ response' = Reply(1, EmptyMap) /\ UNCHANGED body
       ELSE pc' = "decode" /\ body' = sources[readFrom'] /\ UNCHANGED response
    /\ UNCHANGED <<idleVars, inVars, req, results, regVars, syncVars>>

\* decoder.Decode(&scrapeReq) / json.Unmarshal(inputJson, &scrapeReq)
Decode ==
    /\ pc = "decode"
    /\ IF decodeFails(variant, body)
       THEN pc' = "done" /\ response' = Rejected /\ UNCHANGED req
       ELSE pc' = "validate" /\ req' = body /\ UNCHANGED response
    /\ UNCHANGED <<idleVars, inVars, readVars, results, regVars, syncVars>>

\* A plausible slip: the return after the error reply is missing.
ValidateNoReturn ==
    /\ pc = "validate"
    /\ response' = (IF validate(variant, req) # "nil" THEN Rejected ELSE response)
    /\ pc' = "register"
    /\ pendingItems' = DOMAIN req.items
    /\ UNCHANGED <<idleVars, inVars, readVars, req, results, loopVar, callbacks, handlers, syncVars>>

\* validate(&scrapeReq), then colly.NewCollector() and the results map
Validate ==
    /\ pc = "validate"
    /\ IF validate(variant, req) # "nil"
       THEN pc' = "done" /\ response' = Rejected /\ UNCHANGED pendingItems
       ELSE pc' = "register" /\ pendingItems' = DOMAIN req.items /\ UNCHANGED response
    /\ UNCHANGED <<idleVars, inVars, readVars, req, results, loopVar, callbacks, handlers, syncVars>>

\* Whether the callback reads the loop's one pair of variables when it runs.
\* "cli" passes itemName, item to a function literal, so each callback holds
\* the values of its own iteration. "http" and "server" close over the loop
\* variables: one pair shared by all iterations as the language stood when
\* the code was written (README.md:242), one pair per iteration when the
\* build selects the loop semantics of Go 1.22.
capturesLoopVar(v) == v # "cli" /\ ~perIteration

\* one iteration of  for itemName, item := range scrapeReq.Items
RegisterItem ==
    /\ pc = "register"
    /\ \E name \in pendingItems :
          /\ loopVar' = name
          /\ callbacks' = Append(callbacks,
                [selector |-> req.items[name].selector,
                 byRef |-> capturesLoopVar(variant),
                 name |-> name])
          /\ pendingItems' = pendingItems \ {name}
    /\ UNCHANGED <<idleVars, inVars, readVars, pc, req, results, handlers, syncVars, response>>

\* Whether the program registers an OnError callback
hasOnError(v) == v # "server"

\* A plausible slip: the fetch is set off without waiting for the loop over
\* the items to end.
RegisterSignalsEarly ==
    /\ pc = "register"
    /\ wg' = IF variant = "cli" THEN wg ELSE wg + 1
    /\ ch' = NewChan
    /\ handlers' = (IF hasOnError(variant) THEN {"scraped", "error"} ELSE {"scraped"})
    /\ pc' = "visit"
    /\ UNCHANGED <<idleVars, inVars, readVars, req, results, pendingItems, loopVar, callbacks,
                   visits, events, outcome, fired, scrapeErr, response>>

\* wg.Add(1), c.OnScraped, c.OnError  /  make(chan error, 1), ...
RegisterSignals ==
    /\ pc = "register"
    /\ pendingItems = {}
    /\ wg' = IF variant = "cli" THEN wg ELSE wg + 1
    /\ ch' = NewChan
    /\ handlers' = (IF hasOnError(variant) THEN {"scraped", "error"} ELSE {"scraped"})
    /\ pc' = "visit"
    /\ UNCHANGED <<idleVars, inVars, readVars, req, results, pendingItems, loopVar, callbacks,
                   visits, events, outcome, fired, scrapeErr, response>>

\* c.Visit(url): colly fetches, and invokes the callbacks before it returns
Visit ==
    /\ pc = "visit"
    /\ visits' = visits + 1
    /\ IF refuses(req.url)
       THEN outcome' = "refused" /\ events' = <<>>
       ELSE \E o \in Outcomes :
               /\ outcome' = o
               /\ events' = EventsOf(o, callbacks, doc)
    /\ pc' = "walk"
    /\ UNCHANGED <<idleVars, inVars, readVars, req, results, regVars, wg, ch, fired, scrapeErr, response>>

\* the item a callback works on when it runs
BoundName(cb) == IF cb.byRef THEN loopVar ELSE cb.name

\* the OnHTML callback, on one matched element
OnHTML ==
    /\ pc = "walk"
    /\ events # <<>>
    /\ Head(events).kind = "html"
    /\ LET name == BoundName(callbacks[Head(events).cb])
           fields == req.items[name].fields
           e == doc[Head(events).node]
       IN  \E order \in Orders(DOMAIN fields) :
              results' =
                 IF variant = "server"
                 THEN addValue(results, name, Obj(outItemIn(order)))
                 ELSE accumValue(results, name, Obj(parseFieldsIn(variant, fields, e, order)))
    /\ events' = Tail(events)
    /\ UNCHANGED <<idleVars, inVars, readVars, pc, req, regVars, visits, wg, ch, outcome, fired,
                   scrapeErr, response>>

\* A panic: net/http recovers it and drops the connection without a response;
\* the cli process dies with exit status 2.
Panicked == IF variant = "cli" THEN Reply(2, EmptyMap) ELSE NoResponse

\* the OnScraped callback: wg.Done() / close(scrapeError)
OnScraped ==
    /\ pc = "walk"
    /\ events # <<>>
    /\ Head(events).kind = "scraped"
    /\ fired' = Append(fired, "scraped")
    /\ IF variant = "cli"
       THEN /\ IF ch.closed     \* close of closed channel
               THEN pc' = "panic" /\ response' = Panicked /\ UNCHANGED ch
               ELSE ch' = [ch EXCEPT !.closed = TRUE] /\ UNCHANGED <<pc, response>>
            /\ UNCHANGED wg
       ELSE /\ wg' = wg - 1
            /\ IF wg - 1 < 0     \* sync: negative WaitGroup counter
               THEN pc' = "panic" /\ response' = Panicked
               ELSE UNCHANGED <<pc, response>>
            /\ UNCHANGED ch
    /\ events' = Tail(events)
    /\ UNCHANGED <<idleVars, inVars, readVars, req, results, regVars, visits, outcome, scrapeErr>>

\* the OnError callback: wg.Done() / scrapeError <- err; "server" has none
OnError ==
    /\ pc = "walk"
    /\ events # <<>>
    /\ Head(events).kind = "error"
    /\ variant = "cli" /\ ~ch.closed => Len(ch.buf) < ChanCap   \* a full channel blocks
    /\ IF "error" \notin handlers
       THEN UNCHANGED <<fired, wg, ch, pc, response>>
       ELSE /\ fired' = Append(fired, "error")
            /\ IF variant = "cli"
               THEN /\ IF ch.closed     \* send on closed channel
                       THEN pc' = "panic" /\ response' = Panicked /\ UNCHANGED ch
                       ELSE /\ ch' = [ch EXCEPT !.buf = Append(@, "err")]
                            /\ UNCHANGED <<pc, response>>
                    /\ UNCHANGED wg
               ELSE /\ wg' = wg - 1
                    /\ IF wg - 1 < 0
                       THEN pc' = "panic" /\ response' = Panicked
                       ELSE UNCHANGED <<pc, response>>
                    /\ UNCHANGED ch
    /\ events' = Tail(events)
    /\ UNCHANGED <<idleVars, inVars, readVars, req, results, regVars, visits, outcome, scrapeErr>>

\* c.Visit returns
VisitReturns ==
    /\ pc = "walk"
    /\ events = <<>>
    /\ pc' = "wait"
    /\ UNCHANGED <<idleVars, inVars, readVars, req, results, regVars, syncVars, response>>

\* Whether the caller can pass  wg.Wait() / <-scrapeError
canPass ==
    IF variant = "cli" THEN ch.buf # <<>> \/ ch.closed ELSE wg = 0

\* wg.Wait()  /  scrapeErr := <-scrapeError
Wait ==
    /\ pc = "wait"
    /\ canPass
    /\ IF variant = "cli"
       THEN IF ch.buf # <<>>
            THEN scrapeErr' = Head(ch.buf) /\ ch' = [ch EXCEPT !.buf = Tail(@)]
            ELSE scrapeErr' = "nil" /\ UNCHANGED ch
       ELSE UNCHANGED <<scrapeErr, ch>>
    /\ pc' = "respond"
    /\ UNCHANGED <<idleVars, inVars, readVars, req, results, regVars, visits, wg, events, outcome,
                   fired, response>>

\* "cli": main's goroutine is the only one and can never be woken; the Go
\* runtime ends the process ("all goroutines are asleep - deadlock!",
\* status 2). A handler of "http" or "server" just stays blocked.
RuntimeDeadlock ==
    /\ pc = "wait"
    /\ variant = "cli"
    /\ ~canPass
    /\ pc' = "panic"
    /\ response' = Panicked
    /\ UNCHANGED <<idleVars, inVars, readVars, req, results, regVars, syncVars>>

\* json.MarshalIndent fails on no value the results map can hold
marshalFails(m) == FALSE

\* A plausible slip: a map declared anew is serialized, not the one the
\* callbacks wrote into.
RespondFreshMap ==
    /\ pc = "respond"
    /\ response' =
          IF variant = "cli"
          THEN IF scrapeErr # "nil" THEN Reply(1, EmptyMap)
               ELSE IF marshalFails(EmptyMap) THEN Reply(1, EmptyMap)
               ELSE Reply(0, EmptyMap)
          ELSE IF marshalFails(EmptyMap) THEN Reply(500, EmptyMap)
               ELSE Reply(200, EmptyMap)
    /\ pc' = "done"
    /\ UNCHANGED <<idleVars, inVars, readVars, req, results, regVars, syncVars>>

\* the result written: the handler's 200 / 500, the cli's exit 0 / 1
Respond ==
    /\ pc = "respond"
    /\ response' =
          IF variant = "cli"
          THEN IF scrapeErr # "nil" THEN Reply(1, EmptyMap)
               ELSE IF marshalFails(results) THEN Reply(1, EmptyMap)
               ELSE Reply(0, results)
          ELSE IF marshalFails(results) THEN Reply(500, EmptyMap)
               ELSE Reply(200, results)
    /\ pc' = "done"
    /\ UNCHANGED <<idleVars, inVars, readVars, req, results, regVars, syncVars>>

Next ==
    \/ MethodCheck
    \/ ReadInput
    \/ Decode
    \/ Validate
    \/ RegisterItem
    \/ RegisterSignals
    \/ Visit
    \/ OnHTML
    \/ OnScraped
    \/ OnError
    \/ VisitReturns
    \/ Wait
    \/ RuntimeDeadlock
    \/ Respond

Spec == Init /\ [][Next]_vars

-----------------------------------------------------------------------------
(* C1: after N >= 1 accumulations v1..vN under one key (strings or objects),
   the value stored under the key is v1 itself when N = 1 and the list
   [v1..vN] in call order when N >= 2; a key never accumulated is absent,
   and no stored list has fewer than two elements. *)
C1_AccumPromotion ==
    /\ DOMAIN outMap = {k \in AccumKeys : calls[k] # <<>>}
    /\ \A k \in DOMAIN outMap :
          /\ Len(calls[k]) = 1 => outMap[k] = calls[k][1]
          /\ Len(calls[k]) >= 2 => outMap[k] = List(calls[k])
          /\ outMap[k].kind = "list" => Len(outMap[k].items) >= 2

\* three accumulations under one key, a second key holding a single object
C1_Witness ==
    /\ Len(calls[<<"a">>]) = MaxAccum - 1
    /\ Len(calls[<<"b">>]) = 1
    /\ outMap[<<"a">>].kind = "list"
    /\ outMap[<<"b">>].kind = "obj"

-----------------------------------------------------------------------------
(* The top-level string fields of pfFields, as the called variant parses them *)

LeafNames == {f \in DOMAIN pfFields : pfFields[f].kind = "leaf"}
SelOf(f) == getSelectorAndAttr(pfVariant, pfFields[f].expr)[1]
AttrOf(f) == getSelectorAndAttr(pfVariant, pfFields[f].expr)[2]

\* the descendants of pfNode with tag `sel`, and what each contributes
Selected(sel) == SelectSeq(pfNode.kids, LAMBDA k : k.tag = TrimSpace(sel))
Carrying(es, attr) == SelectSeq(es, LAMBDA k : attr \in DOMAIN k.attrs)
Contribution(f) ==
    IF AttrOf(f) = <<>>
    THEN [i \in 1..Len(Selected(SelOf(f))) |-> Str(Selected(SelOf(f))[i].text)]
    ELSE LET es == Carrying(Selected(SelOf(f)), AttrOf(f))
         IN  [i \in 1..Len(es) |-> Str(es[i].attrs[AttrOf(f)])]

(* C7: a string field with a non-empty selector contributes once per matching
   descendant (with an attribute: per matching descendant carrying it), in
   document order: absent with none, a string with one, a list of k strings
   with k >= 2. *)
C7_OnePerMatchingDescendant ==
    pfRet.called =>
        \A f \in LeafNames :
            Len(SelOf(f)) # 0 =>
                LET c == Contribution(f)
                IN  /\ Len(c) = 0 => f \notin DOMAIN pfRet.parsed
                    /\ Len(c) = 1 => f \in DOMAIN pfRet.parsed /\ pfRet.parsed[f] = c[1]
                    /\ Len(c) >= 2 => f \in DOMAIN pfRet.parsed /\ pfRet.parsed[f] = List(c)

(* C8 as the specification states it: a "|attr" field holds the element's own
   attribute when the element has it and is absent from the object when the
   element has not. *)
C8_AbsentAttrOmitsField ==
    pfRet.called =>
        \A f \in LeafNames :
            (Len(SelOf(f)) = 0 /\ Len(AttrOf(f)) # 0) =>
                IF AttrOf(f) \in DOMAIN pfNode.attrs
                THEN f \in DOMAIN pfRet.parsed
                     /\ pfRet.parsed[f] = Str(pfNode.attrs[AttrOf(f)])
                ELSE f \notin DOMAIN pfRet.parsed

(* C8 amended: a "|attr" field is always present in the object, as one
   string: the element's own attribute when the element has it, the empty
   string when it has not (an absent attribute reads like an empty one). *)
C8_AbsentAttrReadsEmpty ==
    pfRet.called =>
        \A f \in LeafNames :
            (Len(SelOf(f)) = 0 /\ Len(AttrOf(f)) # 0) =>
                /\ f \in DOMAIN pfRet.parsed
                /\ pfRet.parsed[f] =
                      Str(IF AttrOf(f) \in DOMAIN pfNode.attrs
                          THEN pfNode.attrs[AttrOf(f)] ELSE <<>>)

\* "|r" evaluated on an element without the attribute r
C8_Witness ==
    /\ pfRet.called
    /\ pfFields = OneField(<<"t">>, Leaf(<<"|", "r">>))
    /\ pfNode.attrs = NoAttrs
    /\ pfRet.parsed = OneField(<<"t">>, Str(<<>>))

-----------------------------------------------------------------------------
HasBar(s) == \E i \in 1..Len(s) : s[i] = "|"
Padded(s) == s # <<>> /\ (s[1] = " " \/ s[Len(s)] = " ")

(* C9: getSelectorAndAttr splits on the last '|': the attribute holds no '|';
   src/gluestick.go returns (expr, "") without a '|' and otherwise the text
   before and the text after the last '|'; "a img|src", "h3", "|href" and ""
   parse to ("a img","src"), ("h3",""), ("","href") and ("","") in both
   variants. *)
C9_SplitsOnLastBar ==
    parseRet.called =>
        /\ ~HasBar(parseRet.attr)
        /\ parseVariant = "http" =>
              IF HasBar(input)
              THEN input = parseRet.sel \o <<"|">> \o parseRet.attr
              ELSE parseRet.sel = input /\ parseRet.attr = <<>>
        /\ input = Example1 =>
              parseRet.sel = <<"a", " ", "i", "m", "g">> /\ parseRet.attr = <<"s", "r", "c">>
        /\ input = Example2 => parseRet.sel = <<"h", "3">> /\ parseRet.attr = <<>>
        /\ input = Example3 => parseRet.sel = <<>> /\ parseRet.attr = <<"h", "r", "e", "f">>
        /\ input = <<>> => parseRet.sel = <<>> /\ parseRet.attr = <<>>

\* an expression with two '|': the split is at the second
C9_Witness ==
    /\ parseRet.called
    /\ parseVariant = "http"
    /\ input = <<"|", "h", "|">>
    /\ parseRet.sel = <<"|", "h">>
    /\ parseRet.attr = <<>>

(* C10: both parts getSelectorAndAttr returns are trimmed of surrounding
   white space, in src/gluestick.go as in the README's program: " | href "
   yields ("", "href") and a white-space-only expression yields ("", ""). *)
C10_BothPartsTrimmed ==
    parseRet.called =>
        /\ ~Padded(parseRet.sel)
        /\ ~Padded(parseRet.attr)
        /\ input = Example4 => parseRet.sel = <<>> /\ parseRet.attr = <<"h", "r", "e", "f">>
        /\ (\A i \in 1..Len(input) : input[i] = " ") =>
              parseRet.sel = <<>> /\ parseRet.attr = <<>>

-----------------------------------------------------------------------------
(* What the request's items should yield on the page *)

\* the elements item k's selector matches, in document order
MatchedBy(k) == SelectSeq(doc, LAMBDA e : Matches(e, req.items[k].selector))

\* the object item k's field definitions extract from element e
Extraction(k, e) ==
    LET fields == req.items[k].fields
    IN  IF variant = "server"
        THEN Obj(outItemIn(SomeOrder(DOMAIN fields)))
        ELSE Obj(parseFieldsIn(variant, fields, e, SomeOrder(DOMAIN fields)))

Succeeded == pc = "done" /\ outcome = "ok" /\ response.sent /\ response.code \in {0, 200}

\* the objects a stored value holds
ObjectsIn(val) ==
    IF val.kind = "list" THEN {val.items[i] : i \in 1..Len(val.items)} ELSE {val}

(* C2: after a successful scrape an item whose selector matched no element
   has no key in the result, an item that matched one element has that
   element's object under its name (not a list), and an item that matched
   N >= 2 elements has the list of their N objects in document order. *)
C2_ResultShapePerItem ==
    Succeeded =>
        \A k \in DOMAIN req.items :
            LET m == MatchedBy(k)
            IN  /\ Len(m) = 0 => k \notin DOMAIN response.body
                /\ Len(m) = 1 => /\ k \in DOMAIN response.body
                                 /\ response.body[k] = Extraction(k, m[1])
                /\ Len(m) >= 2 => /\ k \in DOMAIN response.body
                                  /\ response.body[k] =
                                        List([i \in 1..Len(m) |-> Extraction(k, m[i])])

(* C3: every object stored under an item's name was extracted with that
   item's field definitions from an element that item's selector matched. *)
C3_CallbackBoundToOwnItem ==
    \A k \in DOMAIN results :
        /\ k \in DOMAIN req.items
        /\ \A o \in ObjectsIn(results[k]) :
              \E i \in 1..Len(MatchedBy(k)) : o = Extraction(k, MatchedBy(k)[i])

(* C4: whatever the fetch came to, once Visit has returned the caller gets
   past the wait (wg.Wait / the channel receive): it never blocks forever. *)
C4_WaitNeverBlocksForever ==
    pc = "wait" => canPass

(* C5: when both OnError and OnScraped fire for one fetch, the second signal
   is ignored: no panic, and the caller still gets past the wait. *)
C5_SecondSignalIgnored ==
    Len(fired) >= 2 =>
        /\ pc # "panic"
        /\ pc = "wait" => canPass

(* C6: the outcome the caller gets reflects the terminal signal: the result
   mapping and no error when the walk completed, an error (never a success)
   when colly reported a failure. *)
C6_OutcomeReflectsSignal ==
    pc = "done" /\ outcome # "none" =>
        IF outcome = "ok"
        THEN response.code \in {0, 200} /\ response.body = results
        ELSE response.code \notin {0, 200}

-----------------------------------------------------------------------------
\* Whether the object m is what the field tree `fields` gives on element e:
\* one entry per contributing string field, one object per nested field.
RECURSIVE Mirrors(_, _, _, _)
Mirrors(v, fields, e, m) ==
    /\ DOMAIN m \subseteq DOMAIN fields
    /\ \A f \in DOMAIN fields :
          CASE fields[f].kind = "nested" ->
                  /\ f \in DOMAIN m
                  /\ m[f].kind = "obj"
                  /\ Mirrors(v, fields[f].fields, e, m[f].m)
            [] fields[f].kind = "leaf" ->
                  LET c == leafValues(v, fields[f].expr, e)
                  IN  /\ Len(c) = 0 => f \notin DOMAIN m
                      /\ Len(c) = 1 => f \in DOMAIN m /\ m[f] = c[1]
                      /\ Len(c) >= 2 => f \in DOMAIN m /\ m[f] = List(c)
            [] OTHER -> f \notin DOMAIN m

(* C11: every nested field is present in the parsed object and holds an
   object, never a list, and an empty object when no sub-field contributes;
   the sub-object is the sub-fields' extraction on the same element, and so
   at every depth of nesting. *)
C11_NestedAlwaysObject ==
    pfRet.called => Mirrors(pfVariant, pfFields, pfNode, pfRet.parsed)

\* two levels of nesting: a string beside an empty innermost object
C11_Witness ==
    /\ pfRet.called
    /\ <<"n">> \in DOMAIN pfRet.parsed
    /\ pfRet.parsed[<<"n">>].kind = "obj"
    /\ DOMAIN pfRet.parsed[<<"n">>].m = {<<"t">>, <<"n">>}
    /\ pfRet.parsed[<<"n">>].m[<<"n">>] = Obj(EmptyMap)

-----------------------------------------------------------------------------
\* The result map a walk leaves behind: the item callbacks' writes, one per
\* matched element, folded over the walk's events. `last` is the item the
\* loop variables hold after the loop.
RECURSIVE Walked(_, _, _, _, _, _)
Walked(v, items, cbs, last, d, evs) ==
    IF evs = <<>> THEN EmptyMap
    ELSE LET ev == evs[Len(evs)]
             name == IF cbs[ev.cb].byRef THEN last ELSE cbs[ev.cb].name
             fields == items[name].fields
             before == Walked(v, items, cbs, last, d, SubSeq(evs, 1, Len(evs) - 1))
         IN  IF v = "server"
             THEN addValue(before, name, Obj(outItemIn(SomeOrder(DOMAIN fields))))
             ELSE accumValue(before, name,
                     Obj(parseFieldsIn(v, fields, d[ev.node], SomeOrder(DOMAIN fields))))

\* a field mapping without its definitions that are neither string nor mapping
RECURSIVE WellFormed(_)
WellFormed(fields) ==
    [f \in {g \in DOMAIN fields : fields[g].kind # "other"} |->
        IF fields[f].kind = "nested" THEN Nested(WellFormed(fields[f].fields))
        ELSE fields[f]]
WellFormedItems(items) ==
    [k \in DOMAIN items |-> Item(items[k].selector, WellFormed(items[k].fields))]
HasMalformed(items) ==
    \E k \in DOMAIN items : \E f \in DOMAIN items[k].fields : items[k].fields[f].kind = "other"

(* C12: with parseFields (src/gluestick.go and the README's program), a field
   definition that is neither a string nor a mapping does not fail the
   scrape: a walk that completed is answered with success, and the result is
   the one the same request without the malformed definitions yields. *)
C12_MalformedFieldSkipped ==
    pc = "done" /\ outcome = "ok" /\ variant # "server" =>
        /\ response.code \in {0, 200}
        /\ response.body = Walked(variant, WellFormedItems(req.items), callbacks,
                                  loopVar, doc, HtmlEvents(callbacks, doc, 1))

\* fields {t: <number>, u: "|r"} on one <a r="u">: the object [u: "u"]
C12_Witness ==
    /\ pc = "done"
    /\ outcome = "ok"
    /\ variant # "server"
    /\ HasMalformed(req.items)
    /\ response.code \in {0, 200}
    /\ <<"x">> \in DOMAIN response.body
    /\ response.body[<<"x">>] = Obj(OneField(<<"u">>, Str(<<"u">>)))

-----------------------------------------------------------------------------
\* the request was decoded and validate has run on it
Validated ==
    /\ pc \notin {"start", "decode", "validate"}
    /\ method # "GET"
    /\ body.ok
    /\ ~decodeFails(variant, body)

\* what the specification says validate rejects
Unacceptable(r) ==
    \/ r.url = <<>>
    \/ urlParseFails(r.url)
    \/ DOMAIN r.items = {}
    \/ \E k \in DOMAIN r.items :
          r.items[k].selector = <<>> \/ DOMAIN r.items[k].fields = {}

(* C13: validate returns an error exactly when the url is empty or does not
   parse, the items mapping is empty, or some item has an empty selector or
   an empty fields mapping: a decoded request ends rejected, with no fetch,
   if and only if one of these holds. *)
C13_ValidateRejectsExactly ==
    Validated => ((pc = "done" /\ visits = 0) <=> Unacceptable(body))

-----------------------------------------------------------------------------
\* the input was read, and it does not decode or does not validate
BadRequest ==
    /\ pc # "start"
    /\ method # "GET"
    /\ decodeFails(variant, body) \/ validate(variant, body) # "nil"

(* C14: a request that fails decoding or validation never gets to the fetch:
   no item callback and no terminal callback is ever registered, Visit is
   never called, the caller never waits, and the run ends with the error
   reply (400, or exit status 1 for the cli). *)
C14_RejectedBeforeFetch ==
    BadRequest =>
        /\ callbacks = <<>>
        /\ handlers = {}
        /\ visits = 0
        /\ outcome = "none"
        /\ results = EmptyMap
        /\ pc \in {"decode", "validate", "done"}
        /\ pc = "done" => response = Rejected
        /\ pc # "done" => ENABLED Next

\* a decoded request that validate turned down, answered
C14_Witness ==
    /\ pc = "done"
    /\ body.ok
    /\ req = body
    /\ validate(variant, req) = "err"
    /\ response = Rejected
    /\ visits = 0

-----------------------------------------------------------------------------
\* whether reading from source n works on this command line
Readable(n) ==
    CASE n = "file" -> args.f = "ok"
      [] n = "stdin" -> args.stdin = "ok"
      [] OTHER -> TRUE

\* the cli has read from source n: its contents are the input, or the read
\* failed and the process has exited with status 1
HasRead(n) ==
    /\ readFrom = n
    /\ IF Readable(n) THEN body = sources[n]
       ELSE pc = "done" /\ response = Reply(1, EmptyMap) /\ body = Malformed

(* C15 as the specification states it: the cli looks at -f first, then at
   -in, then at standard input; with both flags given the file is used. *)
C15_FileBeforeLiteral ==
    variant = "cli" /\ pc # "start" =>
        HasRead(IF args.f # "none" THEN "file" ELSE IF args.in THEN "literal" ELSE "stdin")

(* C15, amended: the cli looks at -in first, then at -f, then at standard
   input; with both flags given the -in string is used and the file is not
   read; standard input is read only when neither flag is given. *)
C15_LiteralBeforeFile ==
    variant = "cli" /\ pc # "start" =>
        HasRead(IF args.in THEN "literal" ELSE IF args.f # "none" THEN "file" ELSE "stdin")

\* both flags given, the two sources holding different JSON: the -in string
\* is what gets decoded
C15_Witness ==
    /\ variant = "cli"
    /\ args.in
    /\ args.f = "ok"
    /\ sources.file # sources.literal
    /\ pc = "validate"
    /\ readFrom = "literal"
    /\ req = sources.literal

-----------------------------------------------------------------------------
\* reading, decoding, validating and scraping all went well (serializing
\* the results cannot fail)
AllSucceeded ==
    /\ Readable(readFrom)
    /\ ~decodeFails(variant, body)
    /\ validate(variant, body) = "nil"
    /\ outcome = "ok"

(* C16: every run of the cli ends by exiting, with status 0 or 1 and no
   other: 0 exactly when reading, decoding, validating, scraping and
   serializing all succeeded (the results then printed), 1 otherwise. *)
C16_ExitZeroOrOne ==
    variant = "cli" =>
        /\ pc # "done" => ENABLED Next
        /\ pc = "done" =>
              /\ response.code \in {0, 1}
              /\ response.code = 0 <=> AllSucceeded
              /\ response.code = 0 => response.body = results

-----------------------------------------------------------------------------
(* C17: the /scrape handler answers every request, with one status: 405 for
   a method other than POST, without reading the body; 400 when the body
   does not decode or validate; otherwise 500 when the results cannot be
   serialized and 200 with the results when they can, written only after a
   terminal callback has fired. *)
C17_OneStatusPerRequest ==
    variant # "cli" =>
        /\ pc # "done" => ENABLED Next
        /\ pc = "done" =>
              /\ response.sent
              /\ response.code =
                    (IF method # "POST" THEN 405
                     ELSE IF BadRequest THEN 400
                     ELSE IF marshalFails(results) THEN 500 ELSE 200)
              /\ response.code = 405 => req = NoReq
              /\ response.code = 200 => fired # <<>> /\ response.body = results

-----------------------------------------------------------------------------
\* the scrape's states, in their order: Idle, Registered, Fetching, and
\* Completed or Failed once the caller has been let through
Rank(p) ==
    CASE p \in {"start", "decode", "validate"} -> 0
      [] p \in {"register", "visit"} -> 1
      [] p \in {"walk", "wait"} -> 2
      [] OTHER -> 3

AllRegistered ==
    /\ pendingItems = {}
    /\ Len(callbacks) = Cardinality(DOMAIN req.items)
    /\ {callbacks[i].name : i \in DOMAIN callbacks} = DOMAIN req.items
    /\ "scraped" \in handlers
    /\ variant # "server" => "error" \in handlers

(* C18: with src/gluestick.go and the README's program a scrape goes from
   Idle to Registered to Fetching to Completed or Failed and never back:
   one callback per item, OnScraped and OnError are all registered before
   the fetch and none after it began, Visit is called at most once, no
   terminal callback fires before it, and nothing changes once the caller
   has answered. *)
C18_StatesInOrder ==
    /\ [](/\ visits <= 1
          /\ visits = 1 => AllRegistered
          /\ fired # <<>> \/ results # EmptyMap => visits = 1
          /\ Rank(pc) <= 1 => visits = 0
          /\ pc \in {"walk", "wait", "respond", "panic"} => visits = 1)
    /\ [][/\ Rank(pc') >= Rank(pc)
          /\ visits = 1 => callbacks' = callbacks /\ handlers' = handlers
          /\ pc = "done" => mainVars' = mainVars]_vars

\* two items registered, one fetch, the completion signal, the answer
C18_Witness ==
    /\ pc = "done"
    /\ variant # "server"
    /\ Len(callbacks) = 2
    /\ handlers = {"scraped", "error"}
    /\ visits = 1
    /\ fired = <<"scraped">>
    /\ response.code \in {0, 200}

-----------------------------------------------------------------------------
(* C19: the results map is written by the item callbacks during the walk and
   by nothing else; it does not change once a terminal callback has fired or
   the caller has been let through, and the mapping serialized into a
   successful answer is that map. *)
C19_ResultsFrozenAfterSignal ==
    /\ [](pc = "done" /\ response.code \in {0, 200} => response.body = results)
    /\ [][/\ results' # results =>
                pc = "walk" /\ events # <<>> /\ Head(events).kind = "html"
          /\ fired # <<>> => results' = results
          /\ pc \in {"wait", "respond", "done"} => results' = results]_vars

\* a non-empty result, answered after the completion signal
C19_Witness ==
    /\ pc = "done"
    /\ fired = <<"scraped">>
    /\ results # EmptyMap
    /\ response.code \in {0, 200}
    /\ response.body = results

-----------------------------------------------------------------------------
(* SpecTwo: two requests in flight in one server ("http" or "server"). net/http
   runs each handler invocation on a goroutine of its own, so the steps of
   the two interleave freely. *)

Requests == {1, 2}

\* A plausible slip: results and wg declared at package level.
frameShared(r) == 1
\* The invocation whose locals invocation r works on: the collector, results
\* and wg are declared inside scrape, so each invocation has its own.
frame(r) == r

TwoBodies ==
    { Malformed,
      Request(GoodUrl, OneItem(<<"x">>, ItemA)),
      Request(GoodUrl, TwoItems(<<"x">>, ItemA, <<"y">>, ItemD)) }
TwoDocs == {<<>>} \cup {<<e>> : e \in TopElements}

Arrived(m, b, d) ==
    [method |-> m, body |-> b, doc |-> d, pc |-> "start", req |-> NoReq,
     pendingItems |-> {}, loopVar |-> NoItem, callbacks |-> <<>>, handlers |-> {},
     events |-> <<>>, outcome |-> "none", fired |-> <<>>, response |-> NoResponse]
NewFrame == [results |-> EmptyMap, wg |-> 0]

InitTwo ==
    /\ AccumIdle
    /\ ParseIdle
    /\ FieldsIdle
    /\ variant \in {"http", "server"}
    /\ perIteration \in BOOLEAN
    /\ method = "POST"
    /\ args = NoArgs
    /\ sources = NoSources
    /\ body = Malformed
    /\ doc = <<>>
    /\ pc = "idle"
    /\ Fresh
    /\ hs \in [Requests -> {Arrived(m, b, d) : m \in {"POST", "GET"}, b \in TwoBodies, d \in TwoDocs}]
    /\ frames = [f \in Requests |-> NewFrame]

restVars == <<accumVars, parseVars, fieldVars, mainVars>>

\* if r.Method != http.MethodPost
TMethodCheck(r) ==
    /\ hs[r].pc = "start"
    /\ hs' = [hs EXCEPT ![r] =
                IF @.method # "POST"
                THEN [@ EXCEPT !.pc = "done", !.response = Reply(405, EmptyMap)]
                ELSE [@ EXCEPT !.pc = "decode"]]
    /\ UNCHANGED <<restVars, frames>>

\* decoder.Decode(&scrapeReq)
TDecode(r) ==
    /\ hs[r].pc = "decode"
    /\ hs' = [hs EXCEPT ![r] =
                IF decodeFails(variant, @.body)
                THEN [@ EXCEPT !.pc = "done", !.response = Reply(400, EmptyMap)]
                ELSE [@ EXCEPT !.pc = "validate", !.req = hs[r].body]]
    /\ UNCHANGED <<restVars, frames>>

\* validate(&scrapeReq), then colly.NewCollector() and the results map
TValidate(r) ==
    /\ hs[r].pc = "validate"
    /\ hs' = [hs EXCEPT ![r] =
                IF validate(variant, @.req) # "nil"
                THEN [@ EXCEPT !.pc = "done", !.response = Reply(400, EmptyMap)]
                ELSE [@ EXCEPT !.pc = "register", !.pendingItems = DOMAIN hs[r].req.items]]
    /\ UNCHANGED <<restVars, frames>>

\* one iteration of  for itemName, item := range scrapeReq.Items
TRegisterItem(r) ==
    /\ hs[r].pc = "register"
    /\ \E name \in hs[r].pendingItems :
          hs' = [hs EXCEPT ![r] =
                    [@ EXCEPT !.loopVar = name,
                              !.callbacks = Append(@,
                                  [selector |-> hs[r].req.items[name].selector,
                                   byRef |-> capturesLoopVar(variant),
                                   name |-> name]),
                              !.pendingItems = @ \ {name}]]
    /\ UNCHANGED <<restVars, frames>>

\* wg.Add(1), c.OnScraped, c.OnError
TRegisterSignals(r) ==
    /\ hs[r].pc = "register"
    /\ hs[r].pendingItems = {}
    /\ frames' = [frames EXCEPT ![frame(r)].wg = @ + 1]
    /\ hs' = [hs EXCEPT ![r] =
                [@ EXCEPT !.pc = "visit",
                          !.handlers = IF hasOnError(variant) THEN {"scraped", "error"}
                                       ELSE {"scraped"}]]
    /\ UNCHANGED restVars

\* c.Visit(url)
TVisit(r) ==
    /\ hs[r].pc = "visit"
    /\ \E o \in Outcomes :
          hs' = [hs EXCEPT ![r] =
                    [@ EXCEPT !.pc = "walk",
                              !.outcome = IF refuses(hs[r].req.url) THEN "refused" ELSE o,
                              !.events = IF refuses(hs[r].req.url) THEN <<>>
                                         ELSE EventsOf(o, hs[r].callbacks, hs[r].doc)]]
    /\ UNCHANGED <<restVars, frames>>

\* the OnHTML callback, on one matched element
TOnHTML(r) ==
    /\ hs[r].pc = "walk"
    /\ hs[r].events # <<>>
    /\ Head(hs[r].events).kind = "html"
    /\ LET cb == hs[r].callbacks[Head(hs[r].events).cb]
           name == IF cb.byRef THEN hs[r].loopVar ELSE cb.name
           fields == hs[r].req.items[name].fields
           e == hs[r].doc[Head(hs[r].events).node]
       IN  \E order \in Orders(DOMAIN fields) :
              frames' = [frames EXCEPT ![frame(r)].results =
                 IF variant = "server"
                 THEN addValue(@, name, Obj(outItemIn(order)))
                 ELSE accumValue(@, name, Obj(parseFieldsIn(variant, fields, e, order)))]
    /\ hs' = [hs EXCEPT ![r].events = Tail(@)]
    /\ UNCHANGED restVars

\* wg.Done(), and where a negative counter leaves the handler: panicking
TDone(r, f) ==
    /\ frames' = [frames EXCEPT ![f].wg = @ - 1]
    /\ hs' = [hs EXCEPT ![r] =
                [@ EXCEPT !.events = Tail(@),
                          !.fired = Append(@, Head(hs[r].events).kind),
                          !.pc = IF frames[f].wg - 1 < 0 THEN "panic" ELSE @]]

\* the OnScraped callback
TOnScraped(r) ==
    /\ hs[r].pc = "walk"
    /\ hs[r].events # <<>>
    /\ Head(hs[r].events).kind = "scraped"
    /\ TDone(r, frame(r))
    /\ UNCHANGED restVars

\* the OnError callback; "server" has none
TOnError(r) ==
    /\ hs[r].pc = "walk"
    /\ hs[r].events # <<>>
    /\ Head(hs[r].events).kind = "error"
    /\ IF "error" \notin hs[r].handlers
       THEN hs' = [hs EXCEPT ![r].events = Tail(@)] /\ UNCHANGED frames
       ELSE TDone(r, frame(r))
    /\ UNCHANGED restVars

\* c.Visit returns
TVisitReturns(r) ==
    /\ hs[r].pc = "walk"
    /\ hs[r].events = <<>>
    /\ hs' = [hs EXCEPT ![r].pc = "wait"]
    /\ UNCHANGED <<restVars, frames>>

\* wg.Wait()
TWait(r) ==
    /\ hs[r].pc = "wait"
    /\ frames[frame(r)].wg = 0
    /\ hs' = [hs EXCEPT ![r].pc = "respond"]
    /\ UNCHANGED <<restVars, frames>>

\* json.MarshalIndent(results, ...), io.WriteString(w, ...)
TRespond(r) ==
    /\ hs[r].pc = "respond"
    /\ hs' = [hs EXCEPT ![r] =
                [@ EXCEPT !.pc = "done",
                          !.response = IF marshalFails(frames[frame(r)].results)
                                       THEN Reply(500, EmptyMap)
                                       ELSE Reply(200, frames[frame(r)].results)]]
    /\ UNCHANGED <<restVars, frames>>

NextTwo ==
    \E r \in Requests :
        \/ TMethodCheck(r)
        \/ TDecode(r)
        \/ TValidate(r)
        \/ TRegisterItem(r)
        \/ TRegisterSignals(r)
        \/ TVisit(r)
        \/ TOnHTML(r)
        \/ TOnScraped(r)
        \/ TOnError(r)
        \/ TVisitReturns(r)
        \/ TWait(r)
        \/ TRespond(r)

SpecTwo == InitTwo /\ [][NextTwo]_vars

-----------------------------------------------------------------------------
\* What an invocation answers when it is the only one running, given its
\* request, its page, what its fetch came to and the order its loop took.
Alone(s) ==
    IF s.method # "POST" THEN Reply(405, EmptyMap)
    ELSE IF decodeFails(variant, s.body) THEN Reply(400, EmptyMap)
    ELSE IF validate(variant, s.body) # "nil" THEN Reply(400, EmptyMap)
    ELSE Reply(200, IF s.outcome = "ok"
                    THEN Walked(variant, s.req.items, s.callbacks, s.loopVar, s.doc,
                                HtmlEvents(s.callbacks, s.doc, 1))
                    ELSE EmptyMap)

(* C20: with two requests in flight, under every interleaving of the two
   handler invocations, each answer is the one the request gets when run
   alone; an invocation's results hold nothing before its own fetch, and it
   gets past its wait exactly when a terminal callback of its own has
   fired. *)
C20_RequestsIndependent ==
    \A r \in Requests :
        /\ hs[r].pc = "done" => hs[r].response = Alone(hs[r])
        /\ hs[r].outcome = "none" => frames[r].results = EmptyMap
        /\ hs[r].pc = "wait" => (frames[r].wg = 0 <=> hs[r].fired # <<>>)
        /\ hs[r].pc = "respond" => hs[r].fired # <<>>

\* request 1 answered with its result while request 2, a different request,
\* is in the middle of its walk with an object already stored
C20_Witness ==
    /\ hs[1].pc = "done"
    /\ hs[1].response.code = 200
    /\ hs[1].response.body # EmptyMap
    /\ hs[2].pc = "walk"
    /\ hs[2].events # <<>>
    /\ frames[2].results # EmptyMap
    /\ hs[2].req # hs[1].req
    /\ frames[2].results # frames[1].results

-----------------------------------------------------------------------------
(* C21: the object parseFields returns does not depend on the order in which
   the range visits the mapping's fields, at any level of nesting: every
   order gives the object that was returned; and accumValue under one key
   adds that key at most and leaves the value under every other key as it
   was. *)
C21_OrderIndependent ==
    pfRet.called =>
        /\ parseFieldsAll(pfVariant, pfFields, pfNode) = {pfRet.parsed}
        /\ \A key \in DOMAIN pfFields \cup AccumKeys, value \in AccumVals :
              LET out == accumValue(pfRet.parsed, key, value)
              IN  /\ DOMAIN out = DOMAIN pfRet.parsed \cup {key}
                  /\ \A k \in DOMAIN pfRet.parsed \ {key} : out[k] = pfRet.parsed[k]

\* two fields, visited in either order, both with a value in the object
C21_Witness ==
    /\ pfRet.called
    /\ Cardinality(Orders(DOMAIN pfFields)) = 2
    /\ DOMAIN pfRet.parsed = DOMAIN pfFields
    /\ \E f \in DOMAIN pfFields, g \in DOMAIN pfFields : pfRet.parsed[f] # pfRet.parsed[g]

====
